---------------------------- MODULE Spec2Model ----------------------------
(***************************************************************************)
(* Call-analysis pipeline of audio_processing.py: upload, model analysis,  *)
(* duration decode, identity resolution and the two BigQuery inserts.      *)
(*                                                                         *)
(* Python strings are sequences of one-character TLA+ strings.  The text   *)
(* returned by the model is a sequence of tokens: ordinary characters, the *)
(* markdown fence markers, and document tokens that stand for              *)
(* the serialisation of one JSON value (DocOf gives the value json.loads   *)
(* returns for it).  JSON values are records [t, s, l] with t the Python   *)
(* type after json.loads.  The created_at timestamp of the rows is not     *)
(* modelled.                                                               *)
(***************************************************************************)
EXTENDS Integers, Sequences, FiniteSets, TLC

(***************************************************************************)
(* Bounds of the model                                                     *)
(***************************************************************************)
MaxCalls == 1
MaxDigits == 11
MaxIds == 2

(***************************************************************************)
(* Python str helpers                                                      *)
(***************************************************************************)
UpperCase == <<"A","B","C","D","E","F","G","H","I","J","K","L","M",
               "N","O","P","Q","R","S","T","U","V","W","X","Y","Z">>
LowerCase == <<"a","b","c","d","e","f","g","h","i","j","k","l","m",
               "n","o","p","q","r","s","t","u","v","w","x","y","z">>
DigitChars == <<"0","1","2","3","4","5","6","7","8","9">>

IsSpace(c) == c \in {" ", "\n", "\t"}
IsDigit(c) == \E i \in 1..10 : DigitChars[i] = c
DigitVal(c) == (CHOOSE i \in 1..10 : DigitChars[i] = c) - 1

LowerChar(c) ==
    IF \E i \in 1..26 : UpperCase[i] = c
    THEN LowerCase[CHOOSE i \in 1..26 : UpperCase[i] = c]
    ELSE c

\* str.lower()
Lower(s) == [i \in 1..Len(s) |-> LowerChar(s[i])]

\* str.strip()
Strip(s) ==
    LET keep == {i \in 1..Len(s) : ~IsSpace(s[i])}
    IN IF keep = {} THEN <<>>
       ELSE LET lo == CHOOSE i \in keep : \A j \in keep : i <= j
                hi == CHOOSE i \in keep : \A j \in keep : j <= i
            IN SubSeq(s, lo, hi)

\* index of the first / last occurrence of character c in s, 0 when absent
IndexOf(s, c) ==
    IF \E i \in 1..Len(s) : s[i] = c
    THEN CHOOSE i \in 1..Len(s) : s[i] = c /\ \A j \in 1..(i-1) : s[j] # c
    ELSE 0
LastIndexOf(s, c) ==
    IF \E i \in 1..Len(s) : s[i] = c
    THEN CHOOSE i \in 1..Len(s) : s[i] = c /\ \A j \in (i+1)..Len(s) : s[j] # c
    ELSE 0

\* pathlib: Path(p).name, Path(p).suffix, Path(p).stem
PathName(p) == SubSeq(p, LastIndexOf(p, "/") + 1, Len(p))
PathSuffix(p) ==
    LET name == PathName(p)
        i == LastIndexOf(name, ".")
    IN IF 1 < i /\ i < Len(name) THEN SubSeq(name, i, Len(name)) ELSE <<>>
PathStem(p) ==
    LET name == PathName(p)
        i == LastIndexOf(name, ".")
    IN IF 1 < i /\ i < Len(name) THEN SubSeq(name, 1, i - 1) ELSE name

(***************************************************************************)
(* JSON values as json.loads yields them, and dict.get                     *)
(***************************************************************************)
JAbsent == [t |-> "absent", s |-> <<>>, l |-> <<>>]
JNull == [t |-> "null", s |-> <<>>, l |-> <<>>]
JStr(s) == [t |-> "str", s |-> s, l |-> <<>>]
\* a number, kept as its decimal literal
JNum(s) == [t |-> "num", s |-> s, l |-> <<>>]
\* a list of strings
JList(l) == [t |-> "list", s |-> <<>>, l |-> l]
JBool(b) == [t |-> "bool", s |-> IF b THEN <<"true">> ELSE <<"false">>, l |-> <<>>]

AnalysisKeys == {"phone_number", "problem_solved", "problem_type", "sentiment",
                 "full_transcript", "agent_name", "agent_tone", "empathy_score",
                 "clarity_score", "interruption_behavior",
                 "improvement_suggestions", "overall_agent_feedback"}
Keys == AnalysisKeys \cup {"error", "raw_output"}

EmptyDict == [k \in Keys |-> JAbsent]

\* data.get(key, default) and data.get(key)
Get(data, key, default) == IF data[key].t = "absent" THEN default ELSE data[key]
GetOrNone(data, key) == Get(data, key, JNull)

\* truth value of a Python object
Falsy(v) ==
    \/ v.t = "null"
    \/ v.t = "str" /\ v.s = <<>>
    \/ v.t = "list" /\ v.l = <<>>
    \/ v.t = "num" /\ \A i \in 1..Len(v.s) : v.s[i] \in {"0", ".", "-"}
    \/ v.t = "bool" /\ v.s = <<"false">>


(***************************************************************************)
(* Helpers of audio_processing.py                                          *)
(***************************************************************************)
IncompletePhone == <<"Incomplete phone number">>
MissingPhone == <<"Missing phone number">>
UnknownName == <<"U","n","k","n","o","w","n">>
UnknownEmp == <<"U","N","K","N","O","W","N","_","E","M","P">>

\* A Python call: exc is "" on a normal return, else the exception's type;
\* s holds the returned string, or str(e).
Returned(s) == [exc |-> "", s |-> s]
Raised(exc, msg) == [exc |-> exc, s |-> <<msg>>]

\* re.sub(r"\D", "", phone or "") and the length test
clean_phone_number(phone) ==
    LET p == IF Falsy(phone) THEN JStr(<<>>) ELSE phone
    IN IF p.t # "str"
       THEN Raised("TypeError", "expected string or bytes-like object")
       ELSE LET digits == SelectSeq(p.s, IsDigit)
            IN IF Len(digits) = 10 THEN Returned(digits)
               ELSE IF 7 <= Len(digits) /\ Len(digits) < 10
                    THEN Returned(IncompletePhone)
                    ELSE Returned(MissingPhone)

\* "\n".join(f"- {item}" for item in value)
RECURSIVE BulletJoin(_)
BulletJoin(items) ==
    IF items = <<>> THEN <<>>
    ELSE IF Len(items) = 1 THEN <<"-", " ">> \o items[1]
    ELSE <<"-", " ">> \o items[1] \o <<"\n">> \o BulletJoin(Tail(items))

normalize_improvement_suggestions(value) ==
    IF value.t = "list" THEN BulletJoin(value.l)
    ELSE IF value.t = "str" THEN value.s
    ELSE <<>>

\* returns the pair (agent_name, employee_id)
extract_agent_from_filename(filename) ==
    LET name == PathStem(filename)
        i == IndexOf(name, "-")
    IN IF i > 0
       THEN [agent_name |-> Strip(SubSeq(name, 1, i - 1)),
             employee_id |-> Strip(SubSeq(name, i + 1, Len(name)))]
       ELSE [agent_name |-> UnknownName, employee_id |-> UnknownEmp]

\* resolve_agent_identity without the .strip() of the spoken name
resolve_agent_identity_unstripped(parsed_data, filename) ==
    LET got == Get(parsed_data, "agent_name", JStr(<<>>))
    IN IF got.t # "str"
       THEN [exc |-> "AttributeError", agent_name |-> <<>>, employee_id |-> <<>>]
       ELSE LET spoken_name == got.s
                file == extract_agent_from_filename(filename)
            IN [exc |-> "",
                agent_name |-> IF spoken_name # <<>> /\ Lower(spoken_name) # <<"u","n","k","n","o","w","n">>
                               THEN spoken_name
                               ELSE file.agent_name,
                employee_id |-> file.employee_id]

\* exc is "" on a normal return of the pair, else the exception's type
resolve_agent_identity(parsed_data, filename) ==
    LET got == Get(parsed_data, "agent_name", JStr(<<>>))
    IN IF got.t # "str"
       THEN [exc |-> "AttributeError", agent_name |-> <<>>, employee_id |-> <<>>]
       ELSE LET spoken_name == Strip(got.s)
                file == extract_agent_from_filename(filename)
            IN [exc |-> "",
                agent_name |-> IF spoken_name # <<>> /\ Lower(spoken_name) # <<"u","n","k","n","o","w","n">>
                               THEN spoken_name
                               ELSE file.agent_name,
                employee_id |-> file.employee_id]

\* int(x): exc is "" and n the integer, else the exception's type
RECURSIVE DigitsToInt(_)
DigitsToInt(s) ==
    IF s = <<>> THEN 0 ELSE 10 * DigitsToInt(SubSeq(s, 1, Len(s) - 1)) + DigitVal(s[Len(s)])
\* an optional sign, then digits
Unsigned(s) == IF s # <<>> /\ s[1] \in {"+", "-"} THEN Tail(s) ELSE s
IsIntLiteral(s) == Unsigned(s) # <<>> /\ \A i \in 1..Len(Unsigned(s)) : IsDigit(Unsigned(s)[i])
SignedInt(s) ==
    IF s # <<>> /\ s[1] = "-" THEN 0 - DigitsToInt(Unsigned(s)) ELSE DigitsToInt(Unsigned(s))
PyInt(v) ==
    IF v.t = "num"
    THEN LET dot == IndexOf(v.s, ".")
         IN [exc |-> "", n |-> SignedInt(IF dot > 0 THEN SubSeq(v.s, 1, dot - 1) ELSE v.s)]
    ELSE IF v.t = "bool"
    THEN [exc |-> "", n |-> IF v.s = <<"true">> THEN 1 ELSE 0]
    ELSE IF v.t = "str"
    THEN IF IsIntLiteral(Strip(v.s))
         THEN [exc |-> "", n |-> SignedInt(Strip(v.s))]
         ELSE [exc |-> "ValueError", n |-> 0]
    ELSE [exc |-> "TypeError", n |-> 0]

(***************************************************************************)
(* The model's response text and json.loads                                *)
(***************************************************************************)
\* the markdown fence markers: three backticks followed by json, and three backticks
FenceOpen == "<fence json>"
FenceClose == "<fence>"

\* what the prompt asks for: every field present and of the documented type
BaseDoc ==
    [k \in Keys |->
        CASE k = "phone_number" -> JStr(<<"9","8","7","6","5","4","3","2","1","0">>)
          [] k = "problem_solved" -> JStr(<<"Solved">>)
          [] k = "problem_type" -> JStr(<<"Network">>)
          [] k = "sentiment" -> JStr(<<"calm">>)
          [] k = "full_transcript" -> JStr(<<"Customer: ...">>)
          [] k = "agent_name" -> JStr(UnknownName)
          [] k = "agent_tone" -> JStr(<<"empathetic">>)
          [] k = "empathy_score" -> JNum(<<"4">>)
          [] k = "clarity_score" -> JNum(<<"5">>)
          [] k = "interruption_behavior" -> JStr(<<"low">>)
          [] k = "improvement_suggestions" ->
                 JList(<< <<"Be concise">>, <<"Confirm details">> >>)
          [] k = "overall_agent_feedback" -> JStr(<<"Good call">>)
          [] OTHER -> JAbsent]

Anita == <<"A","n","i","t","a">>

\* The documents a response can carry, by the token that stands for their
\* text.  Nothing makes the model keep to the requested types.
DictTokens == {"{ok}", "{named}", "{shortphone}", "{nophone}", "{numphone}",
               "{nullname}", "{nullscore}", "{wordscore}", "{noscore}", "{nullsugg}"}
DocTokens == DictTokens \cup {"[list]", "null"}

\* json.loads of a document token that holds an object
DocOf(tok) ==
    CASE tok = "{ok}" -> BaseDoc
      [] tok = "{named}" ->
             [BaseDoc EXCEPT !["agent_name"] = JStr(Anita),
                             !["phone_number"] = JStr(<<"9","8","7","6","5","-","4","3","2","1","0">>),
                             !["improvement_suggestions"] = JStr(<<"Listen more">>),
                             !["empathy_score"] = JStr(<<"3">>)]
      [] tok = "{shortphone}" ->
             [BaseDoc EXCEPT !["phone_number"] = JStr(<<"9","8","7","6","5","4","3","2">>)]
      [] tok = "{nophone}" -> [BaseDoc EXCEPT !["phone_number"] = JAbsent]
      [] tok = "{numphone}" ->
             [BaseDoc EXCEPT !["phone_number"] = JNum(<<"9","8","7","6","5","4","3","2","1","0">>)]
      [] tok = "{nullname}" -> [BaseDoc EXCEPT !["agent_name"] = JNull]
      [] tok = "{nullscore}" -> [BaseDoc EXCEPT !["empathy_score"] = JNull]
      [] tok = "{wordscore}" -> [BaseDoc EXCEPT !["clarity_score"] = JStr(<<"f","o","u","r">>)]
      [] tok = "{noscore}" ->
             [BaseDoc EXCEPT !["empathy_score"] = JAbsent, !["clarity_score"] = JAbsent]
      [] tok = "{nullsugg}" -> [BaseDoc EXCEPT !["improvement_suggestions"] = JNull]
      [] OTHER -> EmptyDict

\* re.search of the fenced block, non-greedy: the text between the first
\* opening fence and the first fence after it; found is FALSE without a match
FenceMatch(raw) ==
    LET i == IndexOf(raw, FenceOpen)
        closers == IF i = 0 THEN {}
                   ELSE {j \in (i+1)..Len(raw) : raw[j] \in {FenceOpen, FenceClose}}
    IN IF closers = {} THEN [found |-> FALSE, group |-> <<>>]
       ELSE LET j == CHOOSE x \in closers : \A y \in closers : x <= y
            IN [found |-> TRUE, group |-> SubSeq(raw, i + 1, j - 1)]

\* json.loads(raw) succeeds when raw is one JSON value, blanks around it allowed
IsJson(raw) == Len(Strip(raw)) = 1 /\ Strip(raw)[1] \in DocTokens

\* ErrorResult with an empty dict returned from the except block
ErrorResultEmpty(msg) == EmptyDict

\* the dict the two except blocks build around their message
ErrorResult(msg) == [EmptyDict EXCEPT !["error"] = JStr(msg)]

\* response is what generate_content and response.text give: exc is "" and
\* text the response text, or exc names the exception they raise.
transcribe_and_analyze_audio(response) ==
    IF response.exc # "" THEN ErrorResult(<<response.exc>>)
    ELSE LET stripped == Strip(response.text)
             match == FenceMatch(stripped)
             raw == IF match.found THEN Strip(match.group) ELSE stripped
         IN IF ~IsJson(raw)
            THEN [ErrorResult(<<"Invalid JSON">>) EXCEPT !["raw_output"] = JStr(raw)]
            ELSE IF raw[1] \notin DictTokens
            THEN ErrorResult(<<"object has no attribute get">>)
            ELSE LET parsed == DocOf(raw[1])
                     phone == clean_phone_number(Get(parsed, "phone_number", JStr(<<>>)))
                 IN IF phone.exc # "" THEN ErrorResult(phone.s)
                    ELSE [parsed EXCEPT !["phone_number"] = JStr(phone.s)]

(***************************************************************************)
(* Inputs of the pipeline                                                  *)
(***************************************************************************)
Calls == 1..MaxCalls

RohitPath == <<"t","/">> \o <<"R","o","h","i","t","S","h","a","r","m","a","-","E","M","P","1","0","2","3",".","w","a","v">>
RecordingPath == <<"c","a","l","l","r","e","c","o","r","d","i","n","g",".","w","a","v">>

\* the audio files handed to the pipeline: their path and decoded length
RohitFile == [path |-> RohitPath, ms |-> 42000]
RecordingFile == [path |-> RecordingPath, ms |-> 1999]

None == <<>>
GCS_BUCKET == <<"your-gcs-bucket-name">>
\* random.randint(1000, 9999), as the text the f-string formats
RandomSuffixes == {<<"1","0","0","0">>, <<"9","9","9","9">>}
\* the object key app.py passes for an uploaded file
AppDestName(path) == <<"upload_audio/", "uuid4", "_">> \o PathName(path)

\* the arguments of a call: from app.py with its object key, or from the
\* command line without one
CallArgs == {[file |-> RohitFile, dest_blob_name |-> AppDestName(RohitPath)],
             [file |-> RecordingFile, dest_blob_name |-> None]}

MinCustomerId == 10000
CustomerIds == MinCustomerId..(MinCustomerId + MaxIds - 1)

Text(exc, text) == [exc |-> exc, text |-> text]
\* what gemini_model.generate_content(...).text does in a pipeline run
Responses ==
    {Text("ServiceUnavailable", <<>>),
     Text("", <<"{ok}">>),
     Text("", <<FenceOpen, "\n", "{named}", "\n", FenceClose>>),
     Text("", <<"S", "u", "r", "e", ":", "\n", FenceOpen, "\n", "n", "o", "p", "e", "\n",
                FenceClose, "\n">>),
     Text("", <<"{numphone}">>),
     Text("", <<"{nullname}">>),
     Text("", <<"{nullscore}">>),
     Text("", <<"{wordscore}">>),
     Text("", <<"{noscore}">>)}

\* mimetypes.guess_type(local_path)[0], None for an unknown extension
GuessMime(path) ==
    LET ext == Lower(PathSuffix(path))
    IN IF ext = <<".","w","a","v">> THEN <<"audio/x-wav">>
       ELSE IF ext = <<".","m","p","3">> THEN <<"audio/mpeg">>
       ELSE None

(***************************************************************************)
(* State                                                                   *)
(***************************************************************************)
VARIABLES
    pc,                    \* where each invocation of process_local_file_and_upload is
    local_path,            \* its arguments ...
    audio_ms,              \* ... the decoded length of the file at local_path
    dest_blob_name,
    gs_uri,                \* its locals
    mime_type,
    response,              \* what the model returned to it
    result,
    customer_id,
    call_duration_seconds,
    final_agent_name,
    employee_id,
    ret,                   \* the dict it returned
    exc,                   \* the exception it raised, and the step that raised
    log,                   \* the steps it ran, in order, with their outcome
    customers,             \* the two BigQuery tables, rows in load order
    employees,
    customer_writer,       \* the invocation that loaded each row
    employee_writer,
    unit_in,               \* a helper called on its own: its arguments
    unit_out               \* and its result

frame == <<local_path, audio_ms, dest_blob_name, gs_uri, mime_type, response, result,
           customer_id, call_duration_seconds, final_agent_name, employee_id>>
tables == <<customers, employees, customer_writer, employee_writer>>
unit == <<unit_in, unit_out>>
vars == <<pc, frame, ret, exc, log, tables, unit>>

NoExc == [type |-> "", step |-> ""]
NoRet == [set |-> FALSE, gs_uri |-> <<>>, customer_id |-> 0, agent_name |-> <<>>,
          employee_id |-> <<>>, result |-> EmptyDict]
NoUnit == [fn |-> "", value |-> JAbsent, data |-> EmptyDict, filename |-> <<>>,
           response |-> Text("", <<>>)]
NoOut == [fn |-> "", exc |-> "", s |-> <<>>, agent_name |-> <<>>, employee_id |-> <<>>,
          result |-> EmptyDict]

PipelineInit ==
    /\ pc = [c \in Calls |-> "idle"]
    /\ local_path = [c \in Calls |-> <<>>]
    /\ audio_ms = [c \in Calls |-> 0]
    /\ dest_blob_name = [c \in Calls |-> None]
    /\ gs_uri = [c \in Calls |-> <<>>]
    /\ mime_type = [c \in Calls |-> None]
    /\ response = [c \in Calls |-> Text("", <<>>)]
    /\ result = [c \in Calls |-> EmptyDict]
    /\ customer_id = [c \in Calls |-> 0]
    /\ call_duration_seconds = [c \in Calls |-> 0]
    /\ final_agent_name = [c \in Calls |-> <<>>]
    /\ employee_id = [c \in Calls |-> <<>>]
    /\ ret = [c \in Calls |-> NoRet]
    /\ exc = [c \in Calls |-> NoExc]
    /\ log = [c \in Calls |-> <<>>]
    /\ customers = <<>>
    /\ employees = <<>>
    /\ customer_writer = <<>>
    /\ employee_writer = <<>>

Init == PipelineInit /\ unit_in = NoUnit /\ unit_out = NoOut

(***************************************************************************)
(* process_local_file_and_upload, one action per statement                 *)
(***************************************************************************)
\* StepAfter with the function returning right after the customer insert
StepAfterEarlyReturn(step) ==
    CASE step = "idle" -> "upload"
      [] step = "upload" -> "analyze"
      [] step = "analyze" -> "genid"
      [] step = "genid" -> "duration"
      [] step = "duration" -> "identity"
      [] step = "identity" -> "insert_customer"
      [] step = "insert_customer" -> "return"
      [] step = "insert_employee" -> "return"
      [] step = "return" -> "done"

\* StepAfter with the two inserts in the other order
StepAfterEmployeeFirst(step) ==
    CASE step = "idle" -> "upload"
      [] step = "upload" -> "analyze"
      [] step = "analyze" -> "genid"
      [] step = "genid" -> "duration"
      [] step = "duration" -> "identity"
      [] step = "identity" -> "insert_employee"
      [] step = "insert_employee" -> "insert_customer"
      [] step = "insert_customer" -> "return"
      [] step = "return" -> "done"

\* the statement that follows each statement of the function body
StepAfter(step) ==
    CASE step = "idle" -> "upload"
      [] step = "upload" -> "analyze"
      [] step = "analyze" -> "genid"
      [] step = "genid" -> "duration"
      [] step = "duration" -> "identity"
      [] step = "identity" -> "insert_customer"
      [] step = "insert_customer" -> "insert_employee"
      [] step = "insert_employee" -> "return"
      [] step = "return" -> "done"

\* the step ran: st is "ok", "recovered" (it caught its own failure) or
\* "raised"; ext tells whether it called the external service
Ran(c, op, st, ext) ==
    log' = [log EXCEPT ![c] = Append(@, [op |-> op, st |-> st, ext |-> ext])]
Goes(c, step) == pc' = [pc EXCEPT ![c] = StepAfter(step)]
\* Raises with the exception swallowed and the next statement run
RaisesSwallowed(c, type, step) ==
    /\ pc' = [pc EXCEPT ![c] = StepAfter(step)]
    /\ UNCHANGED exc

\* Raises with the failed statement run again
RaisesRetried(c, type, step) ==
    /\ pc' = [pc EXCEPT ![c] = step]
    /\ UNCHANGED exc

\* an exception leaves the function: nothing after the statement runs
Raises(c, type, step) ==
    /\ pc' = [pc EXCEPT ![c] = "raised"]
    /\ exc' = [exc EXCEPT ![c] = [type |-> type, step |-> step]]

\* the call, with the default object key when the caller gives none
Call(c) ==
    /\ pc[c] = "idle"
    /\ \E a \in CallArgs :
          /\ local_path' = [local_path EXCEPT ![c] = a.file.path]
          /\ audio_ms' = [audio_ms EXCEPT ![c] = a.file.ms]
          /\ IF a.dest_blob_name = None
             THEN \E r \in RandomSuffixes :
                     dest_blob_name' =
                        [dest_blob_name EXCEPT ![c] =
                            <<"upload_audio/">> \o PathStem(a.file.path) \o <<"_">> \o r
                               \o PathSuffix(a.file.path)]
             ELSE dest_blob_name' = [dest_blob_name EXCEPT ![c] = a.dest_blob_name]
    /\ Goes(c, "idle")
    /\ UNCHANGED <<gs_uri, mime_type, response, result, customer_id,
                   call_duration_seconds, final_agent_name, employee_id>>
    /\ UNCHANGED <<ret, exc, log, tables, unit>>

upload_file_to_gcs(c) ==
    /\ pc[c] = "upload"
    /\ \E ok \in BOOLEAN :
          IF ok
          THEN /\ gs_uri' = [gs_uri EXCEPT ![c] =
                                <<"gs://">> \o GCS_BUCKET \o <<"/">> \o dest_blob_name[c]]
               /\ mime_type' = [mime_type EXCEPT ![c] =
                                   IF GuessMime(local_path[c]) = None
                                   THEN <<"application/octet-stream">>
                                   ELSE GuessMime(local_path[c])]
               /\ Ran(c, "upload", "ok", TRUE)
               /\ Goes(c, "upload")
               /\ UNCHANGED exc
          ELSE /\ Ran(c, "upload", "raised", TRUE)
               /\ Raises(c, "GoogleAPIError", "upload")
               /\ UNCHANGED <<gs_uri, mime_type>>
    /\ UNCHANGED <<local_path, audio_ms, dest_blob_name, response, result, customer_id,
                   call_duration_seconds, final_agent_name, employee_id>>
    /\ UNCHANGED <<ret, tables, unit>>

Analyze(c) ==
    /\ pc[c] = "analyze"
    /\ \E r \in Responses :
          /\ response' = [response EXCEPT ![c] = r]
          /\ result' = [result EXCEPT ![c] = transcribe_and_analyze_audio(r)]
          /\ Ran(c, "analyze",
                 IF transcribe_and_analyze_audio(r)["error"].t = "absent"
                 THEN "ok" ELSE "recovered", TRUE)
    /\ Goes(c, "analyze")
    /\ UNCHANGED <<local_path, audio_ms, dest_blob_name, gs_uri, mime_type, customer_id,
                   call_duration_seconds, final_agent_name, employee_id>>
    /\ UNCHANGED <<ret, exc, tables, unit>>

generate_customer_id(c) ==
    /\ pc[c] = "genid"
    /\ \E id \in CustomerIds : customer_id' = [customer_id EXCEPT ![c] = id]
    /\ Ran(c, "genid", "ok", FALSE)
    /\ Goes(c, "genid")
    /\ UNCHANGED <<local_path, audio_ms, dest_blob_name, gs_uri, mime_type, response,
                   result, call_duration_seconds, final_agent_name, employee_id>>
    /\ UNCHANGED <<ret, exc, tables, unit>>

get_call_duration_seconds(c) ==
    /\ pc[c] = "duration"
    /\ \E ok \in BOOLEAN :
          IF ok
          THEN /\ call_duration_seconds' =
                     [call_duration_seconds EXCEPT ![c] = audio_ms[c] \div 1000]
               /\ Ran(c, "duration", "ok", TRUE)
               /\ Goes(c, "duration")
               /\ UNCHANGED exc
          ELSE /\ Ran(c, "duration", "raised", TRUE)
               /\ Raises(c, "CouldntDecodeError", "duration")
               /\ UNCHANGED call_duration_seconds
    /\ UNCHANGED <<local_path, audio_ms, dest_blob_name, gs_uri, mime_type, response,
                   result, customer_id, final_agent_name, employee_id>>
    /\ UNCHANGED <<ret, tables, unit>>

Identity(c) ==
    /\ pc[c] = "identity"
    /\ LET id == resolve_agent_identity(result[c], PathName(local_path[c]))
       IN IF id.exc = ""
          THEN /\ final_agent_name' = [final_agent_name EXCEPT ![c] = id.agent_name]
               /\ employee_id' = [employee_id EXCEPT ![c] = id.employee_id]
               /\ Ran(c, "identity", "ok", FALSE)
               /\ Goes(c, "identity")
               /\ UNCHANGED exc
          ELSE /\ Ran(c, "identity", "raised", FALSE)
               /\ Raises(c, id.exc, "identity")
               /\ UNCHANGED <<final_agent_name, employee_id>>
    /\ UNCHANGED <<local_path, audio_ms, dest_blob_name, gs_uri, mime_type, response,
                   result, customer_id, call_duration_seconds>>
    /\ UNCHANGED <<ret, tables, unit>>

\* the row insert_customer_data builds
CustomerRow(data, cid, uri) ==
    [customer_id |-> cid,
     phone_number |-> GetOrNone(data, "phone_number"),
     problem_solved |-> GetOrNone(data, "problem_solved"),
     problem_type |-> GetOrNone(data, "problem_type"),
     sentiment |-> GetOrNone(data, "sentiment"),
     full_transcript |-> GetOrNone(data, "full_transcript"),
     call_gcs_uri |-> uri]

\* ScoreError with a score that int() rejects left to default to 0
ScoreErrorDefaulted(data) == ""

\* the first exception int() raises while insert_employee_data builds its row, or ""
ScoreError(data) ==
    LET e == PyInt(Get(data, "empathy_score", JNum(<<"0">>)))
        k == PyInt(Get(data, "clarity_score", JNum(<<"0">>)))
    IN IF e.exc # "" THEN e.exc ELSE k.exc

\* the row insert_employee_data builds, when int() does not raise
EmployeeRow(data, cid, name, eid, duration) ==
    [employee_id |-> eid,
     agent_name |-> name,
     customer_id |-> cid,
     agent_tone |-> GetOrNone(data, "agent_tone"),
     empathy_score |-> PyInt(Get(data, "empathy_score", JNum(<<"0">>))).n,
     clarity_score |-> PyInt(Get(data, "clarity_score", JNum(<<"0">>))).n,
     interruption_behavior |-> GetOrNone(data, "interruption_behavior"),
     improvement_suggestions |->
         normalize_improvement_suggestions(GetOrNone(data, "improvement_suggestions")),
     overall_agent_feedback |-> GetOrNone(data, "overall_agent_feedback"),
     call_duration_seconds |-> duration]

insert_customer_data(c) ==
    /\ pc[c] = "insert_customer"
    /\ \E ok \in BOOLEAN :
          IF ok
          THEN /\ customers' = Append(customers,
                                      CustomerRow(result[c], customer_id[c], gs_uri[c]))
               /\ customer_writer' = Append(customer_writer, c)
               /\ Ran(c, "insert_customer", "ok", TRUE)
               /\ Goes(c, "insert_customer")
               /\ UNCHANGED exc
          ELSE /\ Ran(c, "insert_customer", "raised", TRUE)
               /\ Raises(c, "GoogleAPIError", "insert_customer")
               /\ UNCHANGED <<customers, customer_writer>>
    /\ UNCHANGED <<frame, ret, employees, employee_writer, unit>>

insert_employee_data(c) ==
    /\ pc[c] = "insert_employee"
    /\ IF ScoreError(result[c]) # ""
       THEN /\ Ran(c, "insert_employee", "raised", FALSE)
            /\ Raises(c, ScoreError(result[c]), "insert_employee")
            /\ UNCHANGED <<employees, employee_writer>>
       ELSE \E ok \in BOOLEAN :
               IF ok
               THEN /\ employees' = Append(employees,
                                           EmployeeRow(result[c], customer_id[c],
                                                       final_agent_name[c], employee_id[c],
                                                       call_duration_seconds[c]))
                    /\ employee_writer' = Append(employee_writer, c)
                    /\ Ran(c, "insert_employee", "ok", TRUE)
                    /\ Goes(c, "insert_employee")
                    /\ UNCHANGED exc
               ELSE /\ Ran(c, "insert_employee", "raised", TRUE)
                    /\ Raises(c, "GoogleAPIError", "insert_employee")
                    /\ UNCHANGED <<employees, employee_writer>>
    /\ UNCHANGED <<frame, ret, customers, customer_writer, unit>>

Return(c) ==
    /\ pc[c] = "return"
    /\ ret' = [ret EXCEPT ![c] = [set |-> TRUE,
                                  gs_uri |-> gs_uri[c],
                                  customer_id |-> customer_id[c],
                                  agent_name |-> final_agent_name[c],
                                  employee_id |-> employee_id[c],
                                  result |-> result[c]]]
    /\ Ran(c, "return", "ok", FALSE)
    /\ Goes(c, "return")
    /\ UNCHANGED <<frame, exc, tables, unit>>

Next ==
    \E c \in Calls :
        \/ Call(c)
        \/ upload_file_to_gcs(c)
        \/ Analyze(c)
        \/ generate_customer_id(c)
        \/ get_call_duration_seconds(c)
        \/ Identity(c)
        \/ insert_customer_data(c)
        \/ insert_employee_data(c)
        \/ Return(c)

Spec == Init /\ [][Next]_vars

(***************************************************************************)
(* The helpers called on their own, on a wider set of arguments            *)
(***************************************************************************)
\* n digits, and the same digits written +d-d-d
PhoneDigits(n) == [i \in 1..n |-> DigitChars[(i % 10) + 1]]
PhoneFormatted(n) ==
    [i \in 1..(2 * n + 1) |->
        IF i = 1 THEN "+" ELSE IF i % 2 = 0 THEN DigitChars[((i \div 2) % 10) + 1] ELSE "-"]

PhoneValues ==
    {JStr(PhoneDigits(n)) : n \in 0..MaxDigits}
    \cup {JStr(PhoneFormatted(n)) : n \in 0..MaxDigits}
    \cup {JStr(<<" ">>), JNull, JNum(<<"0">>), JNum(PhoneDigits(10)),
          JList(<<>>), JList(<< <<"x">> >>), JBool(FALSE), JBool(TRUE)}

SuggestionValues ==
    {JList(<<>>), JList(<< <<"Be concise">> >>),
     JList(<< <<"Be concise">>, <<"Confirm details">> >>),
     JList(<< <<"a">>, <<>>, <<"b">> >>),
     JStr(<<>>), JStr(<<"Listen more">>), JStr(<<"-", " ", "a", "\n", "-", " ", "b">>),
     JNull, JNum(<<"3">>), JBool(TRUE)}

AgentNameValues ==
    {JAbsent, JNull, JNum(<<"7">>), JList(<< Anita >>), JBool(TRUE),
     JStr(<<>>), JStr(<<" ", " ">>),
     JStr(UnknownName), JStr(<<"u","n","k","n","o","w","n">>), JStr(<<"U","N","K","N","O","W","N">>),
     JStr(<<" ","u","n","k","n","o","w","n"," ">>),
     JStr(Anita), JStr(<<" ">> \o Anita \o <<" ">>)}

Filenames ==
    {PathName(RohitPath), RecordingPath,
     <<"P","r","i","y","a","M","e","n","o","n","-","E","M","P","5","0","0","2",".","w","a","v">>,
     <<"a","-","b","-","c",".","w","a","v">>,
     <<" ","R","o"," ","-"," ","E","1"," ",".","w","a","v">>,
     <<"-","E",".","w","a","v">>,
     <<"n","o","e","x","t">>,
     <<"a","-","b",".","t","a","r",".","g","z">>}

\* the analysis results resolve_agent_identity can be handed
IdentityData ==
    {[BaseDoc EXCEPT !["agent_name"] = v] : v \in AgentNameValues}
    \cup {ErrorResult(<<"ServiceUnavailable">>)}

Garbage == <<"n", "o", " ", "j", "s", "o", "n">>
Payloads == {<<tok>> : tok \in DocTokens} \cup {Garbage, <<>>, <<"{ok}", "{ok}">>}
Wrapped(body) ==
    {body,
     <<" ", "\n">> \o body \o <<"\n">>,
     <<FenceOpen, "\n">> \o body \o <<"\n", FenceClose>>,
     <<"H", "i", ":", "\n", FenceOpen>> \o body \o <<FenceClose, "\n", "b", "y", "e">>,
     <<FenceOpen, "\n">> \o body,
     <<FenceClose, "\n">> \o body \o <<"\n", FenceClose>>}
ResponseTexts == UNION {Wrapped(body) : body \in Payloads}
UnitResponses ==
    {Text("", t) : t \in ResponseTexts}
    \cup {Text("ServiceUnavailable", <<>>), Text("ValueError", <<>>)}

UnitInputs ==
    {[NoUnit EXCEPT !.fn = "clean_phone_number", !.value = v] : v \in PhoneValues}
    \cup {[NoUnit EXCEPT !.fn = "normalize_improvement_suggestions", !.value = v] :
             v \in SuggestionValues}
    \cup {[NoUnit EXCEPT !.fn = "resolve_agent_identity", !.data = d, !.filename = f] :
             d \in IdentityData, f \in Filenames}
    \cup {[NoUnit EXCEPT !.fn = "transcribe_and_analyze_audio", !.response = r] :
             r \in UnitResponses}

UnitInit == PipelineInit /\ unit_in \in UnitInputs /\ unit_out = NoOut

Called(fn) == unit_in.fn = fn /\ unit_out.fn = ""

CallCleanPhone ==
    /\ Called("clean_phone_number")
    /\ unit_out' = [NoOut EXCEPT !.fn = unit_in.fn,
                                 !.exc = clean_phone_number(unit_in.value).exc,
                                 !.s = clean_phone_number(unit_in.value).s]
    /\ UNCHANGED <<pc, frame, ret, exc, log, tables, unit_in>>

CallNormalize ==
    /\ Called("normalize_improvement_suggestions")
    /\ unit_out' = [NoOut EXCEPT !.fn = unit_in.fn,
                                 !.s = normalize_improvement_suggestions(unit_in.value)]
    /\ UNCHANGED <<pc, frame, ret, exc, log, tables, unit_in>>

CallResolve ==
    /\ Called("resolve_agent_identity")
    /\ LET id == resolve_agent_identity(unit_in.data, unit_in.filename)
       IN unit_out' = [NoOut EXCEPT !.fn = unit_in.fn,
                                    !.exc = id.exc,
                                    !.agent_name = id.agent_name,
                                    !.employee_id = id.employee_id]
    /\ UNCHANGED <<pc, frame, ret, exc, log, tables, unit_in>>

CallTranscribe ==
    /\ Called("transcribe_and_analyze_audio")
    /\ unit_out' = [NoOut EXCEPT !.fn = unit_in.fn,
                                 !.result = transcribe_and_analyze_audio(unit_in.response)]
    /\ UNCHANGED <<pc, frame, ret, exc, log, tables, unit_in>>

UnitNext == CallCleanPhone \/ CallNormalize \/ CallResolve \/ CallTranscribe

UnitSpec == UnitInit /\ [][UnitNext]_vars

(***************************************************************************)
(* Properties of the pipeline (under Spec)                                 *)
(***************************************************************************)
\* the positions of the rows invocation c loaded into a table
RowsOf(writer, c) == {i \in 1..Len(writer) : writer[i] = c}
\* the steps of invocation c that called an external service, in order
Attempts(c) == SelectSeq(log[c], LAMBDA e : e.ext)
\* position k of c's log ran op to completion
Completed(c, k, op) == log[c][k].op = op /\ log[c][k].st \in {"ok", "recovered"}
PipelineOrder == <<"upload", "analyze", "genid", "duration", "identity",
                   "insert_customer", "insert_employee", "return">>

\* C1: an invocation that returned has loaded exactly one customer row and
\* exactly one employee row, both with the returned customer_id, the
\* employee row with the returned agent_name and employee_id, the customer
\* row with the returned URI; no insert runs before upload, analysis,
\* duration decode and identity resolution completed; and the rows an
\* invocation loaded stay in the tables as they were built.
C1_OnePairPerReturn ==
    \A c \in Calls :
        /\ pc[c] = "done" =>
              /\ ret[c].set
              /\ Cardinality(RowsOf(customer_writer, c)) = 1
              /\ Cardinality(RowsOf(employee_writer, c)) = 1
              /\ \A i \in RowsOf(customer_writer, c) :
                    /\ customers[i].customer_id = ret[c].customer_id
                    /\ customers[i].call_gcs_uri = ret[c].gs_uri
              /\ \A j \in RowsOf(employee_writer, c) :
                    /\ employees[j].customer_id = ret[c].customer_id
                    /\ employees[j].agent_name = ret[c].agent_name
                    /\ employees[j].employee_id = ret[c].employee_id
        /\ \A k \in 1..Len(log[c]) :
              log[c][k].op \in {"insert_customer", "insert_employee"} =>
                 \A op \in {"upload", "analyze", "duration", "identity"} :
                    \E j \in 1..(k - 1) : Completed(c, j, op)
        /\ Len(customers) = Len(customer_writer)
        /\ Len(employees) = Len(employee_writer)
        /\ Cardinality(RowsOf(customer_writer, c)) =
              Cardinality({k \in 1..Len(log[c]) : Completed(c, k, "insert_customer")})
        /\ Cardinality(RowsOf(employee_writer, c)) =
              Cardinality({k \in 1..Len(log[c]) : Completed(c, k, "insert_employee")})
        /\ \A i \in RowsOf(customer_writer, c) :
              customers[i] = CustomerRow(result[c], customer_id[c], gs_uri[c])

C1_Witness ==
    \E c \in Calls :
        /\ pc[c] = "done"
        /\ ret[c].agent_name = employees[Len(employees)].agent_name
        /\ Len(customers) >= 1

C5_ModelFailureRecovered ==
    \A c \in Calls :
        response[c].exc # "" =>
           /\ result[c]["error"] = JStr(<<response[c].exc>>)
           /\ pc[c] \in {"genid", "duration", "identity", "insert_customer",
                         "insert_employee", "return", "done", "raised"}
           /\ pc[c] = "raised" =>
                 /\ exc[c].step \in {"duration", "insert_customer", "insert_employee"}
                 /\ log[c][Len(log[c])].ext
           /\ pc[c] = "done" =>
                 /\ ret[c].result = result[c]
                 /\ RowsOf(customer_writer, c) # {}
                 /\ RowsOf(employee_writer, c) # {}

C5_Witness ==
    \E c \in Calls :
        /\ response[c].exc # ""
        /\ pc[c] = "done"
        /\ ret[c].result["error"].t = "str"

\* The steps of c ran in the order of the function body, and a step that
\* raised is the last one: the invocation is aborted with that exception.
LinearOrder(c) ==
    /\ Len(log[c]) <= Len(PipelineOrder)
    /\ \A k \in 1..Len(log[c]) : log[c][k].op = PipelineOrder[k]
    /\ pc[c] = "done" => Len(log[c]) = Len(PipelineOrder)
RaiseAborts(c) ==
    \A k \in 1..Len(log[c]) :
        log[c][k].st = "raised" =>
           /\ k = Len(log[c])
           /\ pc[c] = "raised"
           /\ exc[c].step = log[c][k].op
\* a failure of the step at position k of c's log, whatever became of it
Failed(c, k) == log[c][k].st \in {"recovered", "raised"}

\* C6 as claimed: linear order, and the JSON parse failure is the only
\* failure recovered internally; a failure of the model call, the duration
\* decode or either insert aborts the invocation.
C6_OnlyParseFailureRecovered ==
    \A c \in Calls :
        /\ LinearOrder(c)
        /\ RaiseAborts(c)
        /\ \A k \in 1..Len(log[c]) :
              log[c][k].st = "recovered" =>
                 /\ log[c][k].op = "analyze"
                 /\ response[c].exc = ""
                 /\ result[c]["error"] = JStr(<<"Invalid JSON">>)

\* C6 as amended: linear order; every failure inside the analysis step (the
\* model call or the reading of its response raising, text that is not JSON,
\* an exception while the parsed value is normalised) is recovered into a
\* result with an error field; a failure of the duration decode, identity
\* resolution, the customer insert or the employee insert aborts the
\* invocation with that exception and no later step runs.
C6_AnalysisFailuresRecovered ==
    \A c \in Calls :
        /\ LinearOrder(c)
        /\ RaiseAborts(c)
        /\ \A k \in 1..Len(log[c]) :
              /\ log[c][k].st = "recovered" =>
                    /\ log[c][k].op = "analyze"
                    /\ result[c]["error"].t = "str"
              /\ (log[c][k].op = "analyze" /\ response[c].exc # "") =>
                    log[c][k].st = "recovered"
              /\ (Failed(c, k) /\ log[c][k].op # "analyze") => log[c][k].st = "raised"
        /\ pc[c] = "raised" =>
              /\ log[c] # <<>>
              /\ log[c][Len(log[c])].st = "raised"
              /\ exc[c].step \in {"upload", "duration", "identity", "insert_customer",
                                  "insert_employee"}

C6_Witness ==
    \E c \in Calls :
        /\ response[c].exc # ""
        /\ pc[c] = "raised"
        /\ exc[c].step = "duration"
        /\ Len(log[c]) = 4

\* C10: within one invocation the external operations are attempted at most
\* once each and in the order upload, model call, duration decode, customer
\* insert, employee insert; none is attempted again after a failure.
ExternalOrder == <<"upload", "analyze", "duration", "insert_customer", "insert_employee">>
RankOf(op) == CHOOSE r \in 1..Len(ExternalOrder) : ExternalOrder[r] = op
C10_EachOperationOnce ==
    \A c \in Calls :
        LET a == Attempts(c)
        IN /\ \A k \in 1..Len(a) : \E r \in 1..Len(ExternalOrder) : ExternalOrder[r] = a[k].op
           /\ \A i, j \in 1..Len(a) : i < j => RankOf(a[i].op) < RankOf(a[j].op)
           /\ \A k \in 1..Len(a) : a[k].st = "raised" => k = Len(a)
           /\ \A k \in 1..Len(log[c]) : log[c][k].st = "raised" => k = Len(log[c])

C10_Witness ==
    \E c \in Calls :
        /\ pc[c] = "done"
        /\ Len(Attempts(c)) = Len(ExternalOrder)

\* the text json.loads is given: the response text, or the body of its fence
JsonText(text) ==
    IF FenceMatch(Strip(text)).found THEN Strip(FenceMatch(Strip(text)).group) ELSE Strip(text)

\* invocation c has run its analysis step
Analyzed(c) == \E k \in 1..Len(log[c]) : log[c][k].op = "analyze"

\* C3 as claimed: when the response text is not JSON, after the optional
\* fence stripping, the result is exactly {error: "Invalid JSON", raw_output:
\* the text the model returned, verbatim}, and the invocation does not raise
\* on account of it.
C3_RawOutputIsOriginalText ==
    \A c \in Calls :
        (/\ Analyzed(c)
         /\ response[c].exc = ""
         /\ ~IsJson(JsonText(response[c].text))) =>
           /\ result[c] = [ErrorResult(<<"Invalid JSON">>) EXCEPT
                              !["raw_output"] = JStr(response[c].text)]
           /\ pc[c] = "raised" => log[c][Len(log[c])].ext

ScoreKeys == {"empathy_score", "clarity_score"}
\* data carries a score that is present and that int() rejects
BadScore(data) == \E k \in ScoreKeys : data[k].t # "absent" /\ PyInt(data[k]).exc # ""
\* data carries neither score key
ScoresAbsent(data) == \A k \in ScoreKeys : data[k].t = "absent"
\* invocation c was aborted by the exception int() raises on a score
CoercionRaised(c) == pc[c] = "raised" /\ exc[c].type \in {"TypeError", "ValueError"}
\* position k of c's log is the employee-row step aborted before any load
RowBuildAborted(c, k) ==
    log[c][k] = [op |-> "insert_employee", st |-> "raised", ext |-> FALSE]

\* C11: an invocation whose analysis result carries an empathy_score or
\* clarity_score that is present and not coercible to an integer never
\* returns and never loads an employee row: when it reaches the employee-row
\* step it raises TypeError or ValueError there, before the load is
\* attempted, with exactly one customer row of the same call already loaded.
\* That exception is raised at no other step and for no other result.  When
\* both score keys are absent the coercion does not raise (only a failing
\* external call can abort the invocation) and the employee row carries 0
\* for both scores.
C11_BadScoreOrphansCustomerRow ==
    \A c \in Calls :
        /\ (Analyzed(c) /\ BadScore(result[c])) =>
              /\ pc[c] \notin {"return", "done"}
              /\ ~ret[c].set
              /\ RowsOf(employee_writer, c) = {}
              /\ pc[c] = "insert_employee" =>
                    Cardinality(RowsOf(customer_writer, c)) = 1
              /\ \A k \in 1..Len(log[c]) :
                    log[c][k].op = "insert_employee" =>
                       /\ RowBuildAborted(c, k)
                       /\ CoercionRaised(c)
                       /\ exc[c].step = "insert_employee"
        /\ CoercionRaised(c) =>
              /\ BadScore(result[c])
              /\ exc[c].step = "insert_employee"
              /\ RowBuildAborted(c, Len(log[c]))
              /\ Cardinality(RowsOf(customer_writer, c)) = 1
              /\ \A i \in RowsOf(customer_writer, c) :
                    customers[i] = CustomerRow(result[c], customer_id[c], gs_uri[c])
              /\ RowsOf(employee_writer, c) = {}
        /\ (Analyzed(c) /\ ScoresAbsent(result[c])) =>
              /\ ~CoercionRaised(c)
              /\ pc[c] = "raised" => log[c][Len(log[c])].ext
              /\ \A j \in RowsOf(employee_writer, c) :
                    /\ employees[j].empathy_score = 0
                    /\ employees[j].clarity_score = 0

C11_Witness ==
    \E c \in Calls :
        /\ result[c]["empathy_score"] = JNull
        /\ pc[c] = "raised"
        /\ exc[c] = [type |-> "TypeError", step |-> "insert_employee"]
        /\ Cardinality(RowsOf(customer_writer, c)) = 1
        /\ RowsOf(employee_writer, c) = {}

(***************************************************************************)
(* Properties of the helpers (under UnitSpec)                              *)
(***************************************************************************)
\* the filename-derived pair as the convention <agentName>-<employeeId>.<ext>
\* reads it: the stem cut at its first "-"
StemBefore(filename) ==
    LET stem == PathStem(filename)
    IN IF IndexOf(stem, "-") = 0 THEN UnknownName
       ELSE SubSeq(stem, 1, IndexOf(stem, "-") - 1)
StemAfter(filename) ==
    LET stem == PathStem(filename)
    IN IF IndexOf(stem, "-") = 0 THEN UnknownEmp
       ELSE SubSeq(stem, IndexOf(stem, "-") + 1, Len(stem))
\* the text of the agent_name the model reported, empty when it reported none
ReportedName(data) == IF data["agent_name"].t = "str" THEN data["agent_name"].s ELSE <<>>
IsUnknownWord(s) == Lower(s) = <<"u","n","k","n","o","w","n">>

ResolveReturned ==
    /\ unit_out.fn = "resolve_agent_identity"
    /\ unit_in.data["agent_name"].t \in {"absent", "str"}

\* C2 as claimed, on the results whose agent_name is absent or a string: the
\* id is the part of the stem after the first "-" (or UNKNOWN_EMP), the name
\* is the model-reported name when that is non-empty and not "unknown" in any
\* case, else the part of the stem before the first "-" (or Unknown).
C2_NameAsReported ==
    ResolveReturned =>
       /\ unit_out.exc = ""
       /\ unit_out.employee_id = StemAfter(unit_in.filename)
       /\ unit_out.agent_name =
             IF ReportedName(unit_in.data) # <<>> /\ ~IsUnknownWord(ReportedName(unit_in.data))
             THEN ReportedName(unit_in.data)
             ELSE StemBefore(unit_in.filename)

\* C2 as amended: the same with surrounding whitespace stripped from the
\* model-reported name before it is tested and returned, and from both
\* filename-derived parts ("Unknown" and "UNKNOWN_EMP" when the stem has no "-").
C2_NameStripped ==
    ResolveReturned =>
       /\ unit_out.exc = ""
       /\ unit_out.employee_id = Strip(StemAfter(unit_in.filename))
       /\ unit_out.agent_name =
             IF Strip(ReportedName(unit_in.data)) # <<>>
                /\ ~IsUnknownWord(Strip(ReportedName(unit_in.data)))
             THEN Strip(ReportedName(unit_in.data))
             ELSE Strip(StemBefore(unit_in.filename))

C2_Witness ==
    /\ ResolveReturned
    /\ unit_in.data["agent_name"] = JStr(<<" ">> \o Anita \o <<" ">>)
    /\ unit_in.filename = PathName(RohitPath)
    /\ unit_out.agent_name = Anita
    /\ unit_out.employee_id = <<"E","M","P","1","0","2","3">>

\* C8 as claimed: resolve_agent_identity returns a pair for every analysis
\* result, also one whose agent_name is null or not a string, and the pair is
\* (Unknown, UNKNOWN_EMP) when neither the model nor the filename names anyone.
C8_IdentityNeverRaises ==
    unit_out.fn = "resolve_agent_identity" =>
       /\ unit_out.exc = ""
       /\ (/\ IndexOf(PathStem(unit_in.filename), "-") = 0
           /\ \/ Strip(ReportedName(unit_in.data)) = <<>>
              \/ IsUnknownWord(Strip(ReportedName(unit_in.data)))) =>
             /\ unit_out.agent_name = UnknownName
             /\ unit_out.employee_id = UnknownEmp

\* the digits of a phone_number value, whatever its JSON type
DigitsOf(v) == IF v.t \in {"str", "num"} THEN SelectSeq(v.s, IsDigit) ELSE <<>>
Normalized(digits) ==
    IF Len(digits) = 10 THEN digits
    ELSE IF Len(digits) \in 7..9 THEN IncompletePhone
    ELSE MissingPhone
\* the response parsed to a JSON object: the token of that object
ParsedObject(r) == r.exc = "" /\ IsJson(JsonText(r.text)) /\ JsonText(r.text)[1] \in DictTokens

\* C7 as claimed: clean_phone_number returns, for every input, the digits
\* when exactly 10 remain after the non-digits are dropped, "Incomplete phone
\* number" for 7 to 9, "Missing phone number" otherwise; and after every
\* successful parse the result's phone_number is that normalised value.
C7_PhoneAlwaysNormalized ==
    /\ unit_out.fn = "clean_phone_number" =>
          /\ unit_out.exc = ""
          /\ unit_out.s = Normalized(DigitsOf(unit_in.value))
    /\ (unit_out.fn = "transcribe_and_analyze_audio" /\ ParsedObject(unit_in.response)) =>
          unit_out.result["phone_number"] =
             JStr(Normalized(DigitsOf(DocOf(JsonText(unit_in.response.text)[1])["phone_number"])))

\* C9 as claimed: after every successful parse the improvement_suggestions of
\* the analysis result is one string: the bullet lines of a list, a string
\* unchanged, "" for anything else.
C9_ResultSuggestionsIsString ==
    (/\ unit_out.fn = "transcribe_and_analyze_audio"
     /\ ParsedObject(unit_in.response)
     /\ unit_out.result["error"].t = "absent") =>
       unit_out.result["improvement_suggestions"] =
          JStr(normalize_improvement_suggestions(
                  GetOrNone(DocOf(JsonText(unit_in.response.text)[1]),
                            "improvement_suggestions")))

=============================================================================
